---- MODULE Spec2Model ----
(***************************************************************************)
(* Capture-to-ordered-emission pipeline of the Chaplin CLI.                *)
(*                                                                         *)
(* Four threads are modelled:                                              *)
(*   - the capture loop          (Chaplin.start_webcam, main thread)       *)
(*   - the hotkey listener       (Chaplin.toggle_recording)                *)
(*   - the inference worker      (ThreadPoolExecutor(max_workers=1))       *)
(*   - the asyncio event loop    (AsyncEventLoopManager), which hosts one  *)
(*     _correct_output_async coroutine per assigned sequence number.       *)
(*                                                                         *)
(* A segment is identified by the ordinal of its creation (its file name   *)
(* is prefix + millisecond timestamp, unique and increasing).  Texts are   *)
(* sequences of one-character strings.                                     *)
(***************************************************************************)
EXTENDS Integers, Sequences, FiniteSets, TLC

(***************************************************************************)
(* Bounds of the model and program constants.                              *)
(***************************************************************************)
\* number of segments the capture loop may open in one run
MaxSegments == 2
\* VideoConfig.fps, scaled down (DEFAULT_FPS is 16)
fps == 1
\* VideoConfig.frame_interval (1/fps seconds) in clock quanta
FrameInterval == 2
MIN_RECORDING_DURATION_SECONDS == 2

\* longest text tried when the correction steps are checked on their own
MaxLen == 2

\* frames one segment may hold before the model stops writing to it
MaxFrames == fps * MIN_RECORDING_DURATION_SECONDS

\* web requests handled in one run
MaxRequests == 2

\* paths generate_video_path can give a VideoRecorder
MaxRecordings == 3

Segments == 1..MaxSegments
RecPaths == 1..MaxRecordings
Requests == 1..MaxRequests
SeqNums  == 0..(MaxSegments - 1)
NoSeg    == 0
NoSeq    == -1
NoTask   == -1

(***************************************************************************)
(* Texts.                                                                  *)
(***************************************************************************)
LOWERS == <<"a","b","c","d","e","f","g","h","i","j","k","l","m",
            "n","o","p","q","r","s","t","u","v","w","x","y","z">>
UPPERS == <<"A","B","C","D","E","F","G","H","I","J","K","L","M",
            "N","O","P","Q","R","S","T","U","V","W","X","Y","Z">>

IsUpper(c) == \E i \in 1..26 : UPPERS[i] = c
IsLower(c) == \E i \in 1..26 : LOWERS[i] = c
IsDigit(c) == c \in {"0","1","2","3","4","5","6","7","8","9"}
\* regular expression class \w
IsWord(c)  == IsUpper(c) \/ IsLower(c) \/ IsDigit(c) \/ c = "_"
\* regular expression class \s, and what str.strip() removes
IsSpace(c) == c \in {" ", "\t", "\n"}
\* the characters of '.!?'
IsTerminal(c) == c \in {".", "!", "?"}

\* str.lower() and str.upper() on one character
LowerChar(c) == IF IsUpper(c) THEN LOWERS[CHOOSE i \in 1..26 : UPPERS[i] = c] ELSE c
UpperChar(c) == IF IsLower(c) THEN UPPERS[CHOOSE i \in 1..26 : LOWERS[i] = c] ELSE c

lower(s) == [i \in 1..Len(s) |-> LowerChar(s[i])]
upper(s) == [i \in 1..Len(s) |-> UpperChar(s[i])]

\* str.strip(): drop leading and trailing whitespace
strip(s) ==
    LET idx == {i \in 1..Len(s) : ~IsSpace(s[i])}
    IN  IF idx = {} THEN <<>>
        ELSE LET lo == CHOOSE i \in idx : \A j \in idx : i <= j
                 hi == CHOOSE i \in idx : \A j \in idx : i >= j
             IN  SubSeq(s, lo, hi)

\* s.startswith(p, k) for the one-based position k
StartsAt(s, p, k) ==
    /\ k + Len(p) - 1 <= Len(s)
    /\ \A i \in 1..Len(p) : s[k + i - 1] = p[i]

(***************************************************************************)
(* chaplin_ui/core/text_formatter.py                                       *)
(***************************************************************************)
CLAUSE_STARTERS ==
    << <<"d","o"," ","y","o","u">>,
       <<"d","i","d"," ","y","o","u">>,
       <<"c","a","n"," ","y","o","u">>,
       <<"w","o","u","l","d"," ","y","o","u">>,
       <<"c","o","u","l","d"," ","y","o","u">>,
       <<"w","i","l","l"," ","y","o","u">>,
       <<"d","o"," ","y","o","u"," ","w","a","n","t">> >>

\* the first position >= j of s that holds no whitespace (Len(s)+1 if none)
RECURSIVE SkipSpaces(_, _)
SkipSpaces(s, j) ==
    IF j > Len(s) \/ ~IsSpace(s[j]) THEN j ELSE SkipSpaces(s, j + 1)

\* the pattern (\w)\s+starter matches s at position i
MatchesAt(s, starter, i) ==
    /\ i <= Len(s)
    /\ IsWord(s[i])
    /\ SkipSpaces(s, i + 1) > i + 1
    /\ StartsAt(s, starter, SkipSpaces(s, i + 1))

\* re.sub(r'(\w)\s+' + starter, r'\1. ' + starter, s), scanning from position i
RECURSIVE SubFrom(_, _, _)
SubFrom(s, starter, i) ==
    IF i > Len(s) THEN <<>>
    ELSE IF MatchesAt(s, starter, i)
         THEN <<s[i], ".", " ">> \o starter
                \o SubFrom(s, starter, SkipSpaces(s, i + 1) + Len(starter))
         ELSE <<s[i]>> \o SubFrom(s, starter, i + 1)

\* the loop over CLAUSE_STARTERS, from the k-th starter on
RECURSIVE SubStarters(_, _)
SubStarters(s, k) ==
    IF k > Len(CLAUSE_STARTERS) THEN s
    ELSE SubStarters(SubFrom(s, CLAUSE_STARTERS[k], 1), k + 1)

\* [p.strip() for p in re.split(r'[.!?]+', s) if p.strip()], with cur the piece
\* collected so far
RECURSIVE SplitSentences(_, _, _)
SplitSentences(s, i, cur) ==
    LET flush == IF strip(cur) = <<>> THEN <<>> ELSE <<strip(cur)>>
    IN  IF i > Len(s) THEN flush
        ELSE IF IsTerminal(s[i]) THEN flush \o SplitSentences(s, i + 1, <<>>)
             ELSE SplitSentences(s, i + 1, Append(cur, s[i]))

\* sentence[0].upper() + sentence[1:], or sentence.upper() for one character
Capitalize(sentence) ==
    IF Len(sentence) > 1
    THEN <<UpperChar(sentence[1])>> \o Tail(sentence)
    ELSE upper(sentence)

\* '. '.join(capitalized sentences), from the k-th sentence on
RECURSIVE JoinSentences(_, _)
JoinSentences(ss, k) ==
    IF k > Len(ss) THEN <<>>
    ELSE IF k = Len(ss) THEN Capitalize(ss[k])
         ELSE Capitalize(ss[k]) \o <<".", " ">> \o JoinSentences(ss, k + 1)

\* the closing "if result and result[-1] not in '.!?': result += '.'", which
\* _correct_output_async repeats on the text it is about to type
EnsureTerminal(t) ==
    IF t # <<>> /\ ~IsTerminal(t[Len(t)]) THEN Append(t, ".") ELSE t

format_text_locally(text) ==
    IF text = <<>> \/ strip(text) = <<>> THEN text
    ELSE LET t1     == lower(strip(text))
             t2     == SubStarters(t1, 1)
             result == JoinSentences(SplitSentences(t2, 1, <<>>), 1)
         IN  EnsureTerminal(result)

(***************************************************************************)
(* chaplin_ui/core/constants.py, llm_client.py: the correction tiers       *)
(***************************************************************************)
LLM_DEFAULT_MODEL  == "local"
LLM_FALLBACK_MODEL == "zai-org/glm-4.6v-flash"

\* the models LLMClient may be configured with
Models == {LLM_DEFAULT_MODEL, LLM_FALLBACK_MODEL}

\* raw transcriptions the recognition call may return
RawTexts == { <<"H","I">> }

\* corrected_text a remote correction call may answer with
Responses == { <<"H","i","!"," ">> }

AfterFailureSkipsPlain(tier, mdl) ==
    CASE tier = "primary"  -> IF mdl # LLM_FALLBACK_MODEL THEN "fallback" ELSE "local"
      [] tier = "fallback" -> "local"
      [] tier = "plain"    -> "local"

\* LLMClient.correct_text: the tier tried after tier has failed ("local" is the
\* final format_text_locally fallback)
AfterFailure(tier, mdl) ==
    CASE tier = "primary"  -> IF mdl # LLM_FALLBACK_MODEL THEN "fallback" ELSE "plain"
      [] tier = "fallback" -> "plain"
      [] tier = "plain"    -> "local"

\* corrected_text of the ChaplinOutput a tier returns for the content t
TierText(tier, t) == IF tier = "plain" THEN strip(t) ELSE t

\* _correct_output_async: strip, close the sentence, add the typing space
FinishText(t) == Append(EnsureTerminal(strip(t)), " ")

\* where a task stands, and with what text, once it has its corrected text
OnCorrected(t) == [pc |-> "acquire", text |-> FinishText(t)]

OnAllTiersFailedRaises(raw) == [pc |-> "failed", text |-> <<>>]

\* every remote tier failed: the local formatter's text goes to the gate
OnAllTiersFailed(raw) == OnCorrected(format_text_locally(raw))

SUPPORTED_VIDEO_FORMATS == {".mp4", ".webm", ".avi", ".mov", ".mkv"}

(***************************************************************************)
(* chaplin_ui/core/video_processor.py                                      *)
(***************************************************************************)
should_process_any_recording(frames, rate) == frames >= rate

should_process_longer_recording(frames, rate) ==
    frames > rate * MIN_RECORDING_DURATION_SECONDS

should_process_recording(frames, rate) ==
    frames >= rate * MIN_RECORDING_DURATION_SECONDS

(***************************************************************************)
(* State.                                                                  *)
(***************************************************************************)
VARIABLES
    \* capture loop (start_webcam)
    capPc,            \* "tick", "elif", "join_async", "join_exec", "cleanup", "done"
    out,              \* segment of the VideoWriter held in `out`, NoSeg for None
    output_path,      \* segment named by `output_path`, NoSeg for ""
    frame_count,
    elapsed,          \* current_time - last_frame_time, capped at FrameInterval
    frame_gap,        \* history: current_time - last_frame_time when the last frame
                      \* was written, capped at FrameInterval
    futures,          \* the list `futures`, as segments
    \* shared with the hotkey thread
    recording,
    hotkeyOn,
    pulse,            \* history: what the hotkey did since the flag was last read
    \* file system and video writers
    files,            \* segments whose file exists
    writers,          \* segments whose VideoWriter is not released
    nseg,             \* segments created so far
    framesOf,         \* frames written to each segment
    discarded,        \* segments closed as too short
    \* inference executor (max_workers = 1)
    execQueue,
    running,
    fut,              \* "none", "queued", "running", "ok", "err"
    current_sequence,
    seqOf,            \* sequence number given to a segment's result
    \* event loop
    model,            \* LLMClient.model, fixed at construction
    loopState,        \* "running", "stopping", "stopped"
    taskPc,
    taskRaw,
    taskText,
    lock,             \* task holding typing_condition's lock, NoTask if free
    next_sequence_to_type,
    typed,            \* sequence numbers in the order kbd_controller.type returned
    correctedOrder,   \* sequence numbers in the order their corrected text was ready
    \* web application: requests to process_video
    webPc,            \* where each request's handler stands
    ext,              \* suffix of the uploaded file's name
    tmp_path,         \* the handler's local tmp_path: "unset", "tmp" or "mp4"
    webFiles,          \* temporary files on disk, as <<request, "tmp" or "mp4">>
    \* a VideoRecorder (chaplin_ui/core/video_processor.py)
    rec_writer,       \* path the VideoWriter in self.writer writes, NoSeg for None
    rec_output_path,  \* self.output_path, NoSeg for ""
    rec_frame_count,  \* self.frame_count
    rec_writers,      \* paths with a VideoWriter that was created and not released
    rec_framesOf,     \* frames in the file at each path
    rec_ret,          \* the last call of a method and how it ended
    \* run_inference (chaplin_ui/core/inference_handler.py)
    inf_args,         \* what the last call was given and met
    inf_result        \* what the last call did

capVars  == <<capPc, out, output_path, frame_count, elapsed, frame_gap, futures>>
fsVars   == <<files, writers, nseg, framesOf, discarded>>
execVars == <<execQueue, running, fut, current_sequence, seqOf>>
loopVars == <<model, loopState, taskPc, taskRaw, taskText, lock, next_sequence_to_type, typed,
              correctedOrder>>
webVars  == <<webPc, ext, tmp_path, webFiles>>
cliVars  == <<capVars, recording, hotkeyOn, pulse, fsVars, execVars, loopVars>>
recVars  == <<rec_writer, rec_output_path, rec_frame_count, rec_writers, rec_framesOf,
              rec_ret>>
infVars  == <<inf_args, inf_result>>
vars == <<cliVars, webVars, recVars, infVars>>

\* characters of the texts tried: a letter, whitespace, sentence punctuation
Alphabet == {"A", " ", "."}

\* the strings of at most MaxLen characters, the empty one included
Texts == UNION {[1..k -> Alphabet] : k \in 0..MaxLen}

\* a callback argument of run_inference: not given, returning, or raising
Callbacks == {"absent", "returns", "raises"}

\* a call of run_inference: whether vsr_model(video_path) raises and what it
\* returns otherwise, the callbacks, cleanup_file, and whether the file exists
InferenceArgs ==
    [model_raises : BOOLEAN, output : Texts, on_result : Callbacks,
     on_error : Callbacks, cleanup_file : BOOLEAN, file_exists : BOOLEAN]

\* the callbacks invoked, how the call ended and whether the file is left
InferenceResults ==
    [called : SUBSET {"on_result", "on_error"},
     ret : [kind : {"none", "text", "None", "raised"}, text : Texts],
     file_exists : BOOLEAN]

\* run_inference has not been called
InfIdle ==
    /\ inf_args = [model_raises |-> FALSE, output |-> <<>>, on_result |-> "absent",
                   on_error |-> "absent", cleanup_file |-> FALSE, file_exists |-> FALSE]
    /\ inf_result = [called |-> {}, ret |-> [kind |-> "none", text |-> <<>>],
                     file_exists |-> FALSE]

\* the methods of VideoRecorder that are called, and how a call ends
RecOps == {"start_recording", "write_frame", "stop_recording"}
RecKinds == {"none", "path", "None", "RuntimeError"}

\* a VideoRecorder as __init__ leaves it
RecIdle ==
    /\ rec_writer = NoSeg
    /\ rec_output_path = NoSeg
    /\ rec_frame_count = 0
    /\ rec_writers = {}
    /\ rec_framesOf = [p \in RecPaths |-> 0]
    /\ rec_ret = [op |-> "none", kind |-> "none", path |-> NoSeg]

WebPcs == {"idle", "read", "convert", "infer", "correct", "finally", "done"}

\* no request has arrived
WebIdle ==
    /\ webPc = [r \in Requests |-> "idle"]
    /\ ext = [r \in Requests |-> ""]
    /\ tmp_path = [r \in Requests |-> "unset"]
    /\ webFiles = {}

TaskPcs == {"none", "scheduled", "primary", "fallback", "plain", "acquire",
            "waiting", "notified", "emit", "done", "emit_raised", "failed"}

TypeOK ==
    /\ capPc \in {"tick", "elif", "join_async", "join_exec", "cleanup", "done"}
    /\ out \in Segments \cup {NoSeg}
    /\ output_path \in Segments \cup {NoSeg}
    /\ frame_count \in 0..MaxFrames
    /\ elapsed \in 0..FrameInterval
    /\ frame_gap \in 0..FrameInterval
    /\ recording \in BOOLEAN /\ hotkeyOn \in BOOLEAN
    /\ pulse \in {"none", "on", "onoff"}
    /\ files \subseteq Segments /\ writers \subseteq Segments
    /\ nseg \in 0..MaxSegments
    /\ framesOf \in [Segments -> 0..MaxFrames]
    /\ discarded \subseteq Segments
    /\ running \in Segments \cup {NoSeg}
    /\ fut \in [Segments -> {"none", "queued", "running", "ok", "err"}]
    /\ current_sequence \in 0..MaxSegments
    /\ seqOf \in [Segments -> SeqNums \cup {NoSeq}]
    /\ model \in Models
    /\ loopState \in {"running", "stopping", "stopped"}
    /\ webPc \in [Requests -> WebPcs]
    /\ ext \in [Requests -> SUPPORTED_VIDEO_FORMATS \cup {""}]
    /\ tmp_path \in [Requests -> {"unset", "tmp", "mp4"}]
    /\ webFiles \subseteq Requests \X {"tmp", "mp4"}
    /\ rec_writer \in RecPaths \cup {NoSeg}
    /\ rec_output_path \in RecPaths \cup {NoSeg}
    /\ rec_frame_count \in 0..MaxFrames
    /\ rec_writers \subseteq RecPaths
    /\ rec_framesOf \in [RecPaths -> 0..MaxFrames]
    /\ inf_args \in InferenceArgs
    /\ inf_result \in InferenceResults
    /\ rec_ret \in [op : RecOps \cup {"none"}, kind : RecKinds, path : RecPaths \cup {NoSeg}]
    /\ taskPc \in [SeqNums -> TaskPcs]
    /\ lock \in SeqNums \cup {NoTask}
    /\ next_sequence_to_type \in 0..MaxSegments

Init ==
    /\ capPc = "tick"
    /\ out = NoSeg
    /\ output_path = NoSeg
    /\ frame_count = 0
    /\ elapsed = 0
    /\ frame_gap = FrameInterval
    /\ futures = <<>>
    /\ recording = FALSE
    /\ hotkeyOn = TRUE
    /\ pulse = "none"
    /\ files = {}
    /\ writers = {}
    /\ nseg = 0
    /\ framesOf = [s \in Segments |-> 0]
    /\ discarded = {}
    /\ execQueue = <<>>
    /\ running = NoSeg
    /\ fut = [s \in Segments |-> "none"]
    /\ current_sequence = 0
    /\ seqOf = [s \in Segments |-> NoSeq]
    /\ model = LLM_DEFAULT_MODEL
    /\ loopState = "running"
    /\ taskPc = [n \in SeqNums |-> "none"]
    /\ taskRaw = [n \in SeqNums |-> <<>>]
    /\ taskText = [n \in SeqNums |-> <<>>]
    /\ lock = NoTask
    /\ next_sequence_to_type = 0
    /\ typed = <<>>
    /\ correctedOrder = <<>>
    /\ WebIdle
    /\ RecIdle
    /\ InfIdle

(***************************************************************************)
(* Hotkey thread.                                                          *)
(***************************************************************************)
\* history of the flag: "on" when the last thing that happened to it is a toggle
\* from False to True, "onoff" when that was followed by a toggle back to False,
\* "none" once the capture loop has read the flag
PulseAfterToggle(p, rec) ==
    IF ~rec THEN "on"
    ELSE IF p = "on" THEN "onoff" ELSE "none"

\* toggle_recording, called by the GlobalHotKeys listener until hotkey.stop()
Toggle ==
    /\ hotkeyOn
    /\ recording' = ~recording
    /\ pulse' = PulseAfterToggle(pulse, recording)
    /\ UNCHANGED <<capVars, hotkeyOn, webVars, recVars, infVars, fsVars, execVars, loopVars>>

(***************************************************************************)
(* Capture loop: Chaplin.start_webcam.                                     *)
(***************************************************************************)
EligibleAlways(d) == TRUE

EligibleLate(d) == elapsed + d > FrameInterval

\* current_time - last_frame_time >= video_config.frame_interval, d quanta
\* after the previous iteration
Eligible(d) == elapsed + d >= FrameInterval

\* "for fut in futures[:]": how many leading futures are done
RECURSIVE DonePrefix(_, _)
DonePrefix(futs, f) ==
    IF futs = <<>> \/ f[Head(futs)] \notin {"ok", "err"} THEN 0
    ELSE 1 + DonePrefix(Tail(futs), f)

\* the list after the loop: every done future of the prefix is removed
FuturesAfter(futs, f) == SubSeq(futs, DonePrefix(futs, f) + 1, Len(futs))

\* a done future's file is removed where fut.result() returns; where it raises
\* the except branch only removes the future
RemovedByFutures(futs, f) ==
    {futs[i] : i \in {j \in 1..DonePrefix(futs, f) : f[futs[j]] = "ok"}}

ElifTakenAlways(rec, count) == ~rec

ElifTakenWhenCounted(rec, count) == count > 0

\* "elif not self.recording and frame_count > 0"
ElifTaken(rec, count) == ~rec /\ count > 0

CanSubmitWhenIdle(q, r) == q = <<>> /\ r = NoSeg

\* executor.submit puts the job on the executor's unbounded queue and returns
\* the future at once, whatever the worker is doing
CanSubmit(q, r) == TRUE

FilesAfterDiscardKept(fl, path) == fl

\* "if os.path.exists(output_path): os.remove(output_path)"
FilesAfterDiscard(fl, path) == fl \ {path}

\* an iteration whose frame is not yet due: only the futures are looked at
TickTooEarly(d) ==
    /\ capPc = "tick"
    /\ ~Eligible(d)
    /\ elapsed' = elapsed + d
    /\ frame_gap' = frame_gap
    /\ futures' = FuturesAfter(futures, fut)
    /\ files' = files \ RemovedByFutures(futures, fut)
    /\ UNCHANGED <<capPc, out, output_path, frame_count, recording, hotkeyOn, webVars, recVars, infVars, pulse,
                   writers, nseg, framesOf, discarded, execVars, loopVars>>

ElapsedAfterFrameTaken(e, d) == 0

\* last_frame_time is not touched when no frame is written: the time since the
\* last written frame goes on growing (kept up to FrameInterval)
ElapsedAfterNoFrame(e, d) ==
    IF e + d >= FrameInterval THEN FrameInterval ELSE e + d

\* cap.read() fails: "continue", which also skips the futures
TickReadFail(d) ==
    /\ capPc = "tick"
    /\ Eligible(d)
    /\ elapsed' = ElapsedAfterNoFrame(elapsed, d)
    /\ frame_gap' = frame_gap
    /\ UNCHANGED <<capPc, out, output_path, frame_count, futures, recording,
                   hotkeyOn, webVars, recVars, infVars, pulse, fsVars, execVars, loopVars>>

generate_video_path_reused(k) == IF k = 0 THEN 1 ELSE k

\* the path is built from the millisecond clock; two segments are opened at least
\* one frame interval apart, so the k+1st segment gets a path none had before
generate_video_path(k) == k + 1

\* "if self.recording:" reads True: open a segment if none is open, write the frame
TickRecord(d) ==
    /\ capPc = "tick"
    /\ Eligible(d)
    /\ recording
    /\ frame_count < MaxFrames
    /\ out = NoSeg => nseg < MaxSegments
    /\ LET opening == out = NoSeg
           seg     == IF opening THEN generate_video_path(nseg) ELSE out
           count   == IF opening THEN 0 ELSE frame_count
       IN  /\ out' = seg
           /\ output_path' = IF opening THEN seg ELSE output_path
           /\ nseg' = IF opening THEN nseg + 1 ELSE nseg
           /\ writers' = writers \cup {seg}
           /\ frame_count' = count + 1
           /\ framesOf' = [framesOf EXCEPT ![seg] = @ + 1]
           /\ files' = (files \cup {seg}) \ RemovedByFutures(futures, fut)
    /\ elapsed' = 0
    /\ frame_gap' = IF elapsed + d >= FrameInterval THEN FrameInterval ELSE elapsed + d
    /\ futures' = FuturesAfter(futures, fut)
    /\ pulse' = "none"
    /\ UNCHANGED <<capPc, recording, hotkeyOn, webVars, recVars, infVars, discarded, execVars, loopVars>>

\* "if self.recording:" reads False: the elif reads the flag again
TickSampleStopped(d) ==
    /\ capPc = "tick"
    /\ Eligible(d)
    /\ ~recording
    /\ capPc' = "elif"
    /\ elapsed' = FrameInterval
    /\ frame_gap' = frame_gap
    /\ pulse' = "none"
    /\ UNCHANGED <<out, output_path, frame_count, futures, recording, hotkeyOn, webVars, recVars, infVars,
                   fsVars, execVars, loopVars>>

FrameCountKeptAfterClose(count) == count

\* "frame_count = 0" at the end of the closing branch
FrameCountAfterClose(count) == 0

\* "elif not self.recording and frame_count > 0" holds and the recording is long
\* enough: release the writer and submit perform_inference to the executor
TickCloseSubmit ==
    /\ capPc = "elif"
    /\ ElifTaken(recording, frame_count)
    /\ should_process_recording(frame_count, fps)
    /\ CanSubmit(execQueue, running)
    /\ capPc' = "tick"
    /\ out' = NoSeg
    /\ writers' = writers \ {out}
    /\ execQueue' = Append(execQueue, output_path)
    /\ fut' = [fut EXCEPT ![output_path] = "queued"]
    /\ futures' = FuturesAfter(Append(futures, output_path), fut')
    /\ files' = files \ RemovedByFutures(Append(futures, output_path), fut')
    /\ frame_count' = FrameCountAfterClose(frame_count)
    /\ output_path' = NoSeg
    /\ pulse' = "none"
    /\ UNCHANGED <<elapsed, frame_gap, recording, hotkeyOn, webVars, recVars, infVars, nseg, framesOf, discarded,
                   running, current_sequence, seqOf, loopVars>>

\* the same branch for a recording that is too short: the file is removed
TickCloseDiscard ==
    /\ capPc = "elif"
    /\ ElifTaken(recording, frame_count)
    /\ ~should_process_recording(frame_count, fps)
    /\ capPc' = "tick"
    /\ out' = NoSeg
    /\ writers' = writers \ {out}
    /\ files' = FilesAfterDiscard(files, output_path) \ RemovedByFutures(futures, fut)
    /\ discarded' = discarded \cup {output_path}
    /\ futures' = FuturesAfter(futures, fut)
    /\ frame_count' = FrameCountAfterClose(frame_count)
    /\ output_path' = NoSeg
    /\ pulse' = "none"
    /\ UNCHANGED <<elapsed, frame_gap, recording, hotkeyOn, webVars, recVars, infVars, nseg, framesOf, execVars, loopVars>>

\* neither branch is taken: the flag reads True by now, or nothing was recorded
TickElifSkip ==
    /\ capPc = "elif"
    /\ ~ElifTaken(recording, frame_count)
    /\ capPc' = "tick"
    /\ futures' = FuturesAfter(futures, fut)
    /\ files' = files \ RemovedByFutures(futures, fut)
    /\ pulse' = "none"
    /\ UNCHANGED <<out, output_path, frame_count, elapsed, frame_gap, recording, hotkeyOn, webVars, recVars, infVars,
                   writers, nseg, framesOf, discarded, execVars, loopVars>>

\* 'q': leave the loop; the finally block releases the writer, stops the hotkey
\* listener and asks the event loop to stop (AsyncEventLoopManager.shutdown)
Quit ==
    /\ capPc = "tick"
    /\ capPc' = "join_async"
    /\ writers' = writers \ {out}
    /\ hotkeyOn' = FALSE
    /\ pulse' = "none"
    /\ loopState' = "stopping"
    /\ UNCHANGED <<out, output_path, frame_count, elapsed, frame_gap, futures, recording, webVars, recVars, infVars,
                   files, nseg, framesOf, discarded, execVars, model, taskPc,
                   taskRaw, taskText, lock, next_sequence_to_type, typed, correctedOrder>>

\* async_manager.shutdown(wait=True) returns once the loop thread has ended
JoinAsync ==
    /\ capPc = "join_async"
    /\ loopState = "stopped"
    /\ capPc' = "join_exec"
    /\ UNCHANGED <<out, output_path, frame_count, elapsed, frame_gap, futures, recording,
                   hotkeyOn, webVars, recVars, infVars, pulse, fsVars, execVars, loopVars>>

ExecutorNotAwaited(q, r) == TRUE

\* shutdown(wait=True) joins the worker thread, which ends when the work queue
\* is empty and no job is running
ExecutorDrained(q, r) == q = <<>> /\ r = NoSeg

\* executor.shutdown(wait=True) returns once every submitted job has run
JoinExec ==
    /\ capPc = "join_exec"
    /\ ExecutorDrained(execQueue, running)
    /\ capPc' = "cleanup"
    /\ UNCHANGED <<out, output_path, frame_count, elapsed, frame_gap, futures, recording,
                   hotkeyOn, webVars, recVars, infVars, pulse, fsVars, execVars, loopVars>>

FilesAfterCleanupClosedOnly(fl, o) == fl \cap {o}

\* cleanup_temp_videos: every file directory.glob(prefix*.mp4) finds is unlinked,
\* the one of the segment that was open at quit included
FilesAfterCleanup(fl, o) == {}

\* _cleanup_temp_videos: every file with the prefix is removed
Cleanup ==
    /\ capPc = "cleanup"
    /\ capPc' = "done"
    /\ files' = FilesAfterCleanup(files, out)
    /\ UNCHANGED <<out, output_path, frame_count, elapsed, frame_gap, futures, recording,
                   hotkeyOn, webVars, recVars, infVars, pulse, writers, nseg, framesOf, discarded, execVars,
                   loopVars>>

(***************************************************************************)
(* Inference worker: the executor's single thread running                  *)
(* Chaplin.perform_inference -> run_inference.                             *)
(***************************************************************************)
DequeueNewest(q) == [job |-> q[Len(q)], rest |-> SubSeq(q, 1, Len(q) - 1)]

\* the executor's work queue is first in, first out
Dequeue(q) == [job |-> Head(q), rest |-> Tail(q)]

SequenceAfterResultKept(cur) == cur

\* on_result: "self.current_sequence += 1"
SequenceAfterResult(cur) == cur + 1

SequenceAfterErrorConsumed(cur) == cur + 1

\* run_inference's except branch never calls on_result
SequenceAfterError(cur) == cur

run_coroutine_dropped(pcs, n) == pcs

\* asyncio.run_coroutine_threadsafe(self._correct_output_async(output, n), loop)
run_coroutine_threadsafe(pcs, n) == [pcs EXCEPT ![n] = "scheduled"]

WorkerFreeAlways(r) == TRUE

\* ThreadPoolExecutor(max_workers=1): the one worker thread is idle
WorkerFree(r) == r = NoSeg

\* the worker takes the next job
WorkerStart ==
    /\ WorkerFree(running)
    /\ execQueue # <<>>
    /\ running' = Dequeue(execQueue).job
    /\ execQueue' = Dequeue(execQueue).rest
    /\ fut' = [fut EXCEPT ![Dequeue(execQueue).job] = "running"]
    /\ UNCHANGED <<capVars, recording, hotkeyOn, webVars, recVars, infVars, pulse, fsVars, current_sequence, seqOf, loopVars>>

\* vsr_model returns raw: on_result takes the sequence number and hands the
\* coroutine to the loop (run_coroutine_threadsafe); the future gets its result
InferOk(raw) ==
    /\ running # NoSeg
    /\ current_sequence < MaxSegments
    /\ seqOf' = [seqOf EXCEPT ![running] = current_sequence]
    /\ current_sequence' = SequenceAfterResult(current_sequence)
    /\ taskPc' = run_coroutine_threadsafe(taskPc, current_sequence)
    /\ taskRaw' = [taskRaw EXCEPT ![current_sequence] = raw]
    /\ fut' = [fut EXCEPT ![running] = "ok"]
    /\ running' = NoSeg
    /\ UNCHANGED <<capVars, recording, hotkeyOn, webVars, recVars, infVars, pulse, fsVars, execQueue,
                   model, loopState, taskText, lock, next_sequence_to_type, typed, correctedOrder>>

WorkerAfterErrorStuck(r) == r

\* the RuntimeError is stored in the future by the executor; the worker thread
\* itself goes back to its queue
WorkerAfterError(r) == NoSeg

\* vsr_model raises: run_inference returns None and perform_inference raises
\* RuntimeError, which the future keeps
InferFail ==
    /\ running # NoSeg
    /\ current_sequence' = SequenceAfterError(current_sequence)
    /\ fut' = [fut EXCEPT ![running] = "err"]
    /\ running' = WorkerAfterError(running)
    /\ UNCHANGED <<capVars, recording, hotkeyOn, webVars, recVars, infVars, pulse, fsVars, execQueue, seqOf,
                   loopVars>>

(***************************************************************************)
(* Event loop thread: one Chaplin._correct_output_async per sequence       *)
(* number.  A step is the code between two suspension points.              *)
(***************************************************************************)
LoopAliveAlways == TRUE

\* run_forever has not returned yet
LoopAlive == loopState # "stopped"

\* loop.stop(), queued by shutdown, takes effect
LoopStop ==
    /\ loopState = "stopping"
    /\ loopState' = "stopped"
    /\ UNCHANGED <<capVars, recording, hotkeyOn, webVars, recVars, infVars, pulse, fsVars, execVars, model, taskPc,
                   taskRaw, taskText, lock, next_sequence_to_type, typed, correctedOrder>>

\* the coroutine starts and awaits the primary structured call
TaskStart(n) ==
    /\ LoopAlive
    /\ taskPc[n] = "scheduled"
    /\ taskPc' = [taskPc EXCEPT ![n] = "primary"]
    /\ UNCHANGED <<capVars, recording, hotkeyOn, webVars, recVars, infVars, pulse, fsVars, execVars,
                   model, loopState, taskRaw, taskText, lock, next_sequence_to_type, typed, correctedOrder>>

\* the awaited call answers with content t
TierOk(n, t) ==
    /\ LoopAlive
    /\ taskPc[n] \in {"primary", "fallback", "plain"}
    /\ LET r == OnCorrected(TierText(taskPc[n], t))
       IN  /\ taskPc' = [taskPc EXCEPT ![n] = r.pc]
           /\ taskText' = [taskText EXCEPT ![n] = r.text]
    /\ correctedOrder' = Append(correctedOrder, n)
    /\ UNCHANGED <<capVars, recording, hotkeyOn, webVars, recVars, infVars, pulse, fsVars, execVars,
                   model, loopState, taskRaw, lock, next_sequence_to_type, typed>>

\* the awaited call raises (timeout, bad response, malformed payload)
TierFail(n) ==
    /\ LoopAlive
    /\ taskPc[n] \in {"primary", "fallback", "plain"}
    /\ LET nt == AfterFailure(taskPc[n], model)
           r  == OnAllTiersFailed(taskRaw[n])
       IN  IF nt = "local"
           THEN /\ taskPc' = [taskPc EXCEPT ![n] = r.pc]
                /\ taskText' = [taskText EXCEPT ![n] = r.text]
                /\ correctedOrder' = Append(correctedOrder, n)
           ELSE /\ taskPc' = [taskPc EXCEPT ![n] = nt]
                /\ UNCHANGED <<taskText, correctedOrder>>
    /\ UNCHANGED <<capVars, recording, hotkeyOn, webVars, recVars, infVars, pulse, fsVars, execVars,
                   model, loopState, taskRaw, lock, next_sequence_to_type, typed>>

MyTurnAlways(n, next) == TRUE

\* the negation of "while self.next_sequence_to_type != sequence_num"
MyTurn(n, next) == next = n

AtGateOrCorrecting(pc) ==
    pc \in {"acquire", "notified", "primary", "fallback", "plain"}

\* the coroutine is at "async with typing_condition" (after the try/except that
\* fixes corrected_text) or has been woken inside wait() and re-acquires the lock
AtGate(pc) == pc \in {"acquire", "notified"}

\* "async with typing_condition", the while test fails: the task holds the lock
\* and is about to type
GateEnter(n) ==
    /\ LoopAlive
    /\ AtGate(taskPc[n])
    /\ lock = NoTask
    /\ MyTurn(n, next_sequence_to_type)
    /\ lock' = n
    /\ taskPc' = [taskPc EXCEPT ![n] = "emit"]
    /\ UNCHANGED <<capVars, recording, hotkeyOn, webVars, recVars, infVars, pulse, fsVars, execVars,
                   model, loopState, taskRaw, taskText, next_sequence_to_type, typed, correctedOrder>>

LockKeptInWait(n) == n

\* Condition.wait() releases the underlying lock before it suspends
LockAfterWait(n) == NoTask

\* the while test holds: typing_condition.wait() releases the lock and parks
GatePark(n) ==
    /\ LoopAlive
    /\ AtGate(taskPc[n])
    /\ lock = NoTask
    /\ ~MyTurn(n, next_sequence_to_type)
    /\ taskPc' = [taskPc EXCEPT ![n] = "waiting"]
    /\ lock' = LockAfterWait(n)
    /\ UNCHANGED <<capVars, recording, hotkeyOn, webVars, recVars, infVars, pulse, fsVars, execVars,
                   model, loopState, taskRaw, taskText, next_sequence_to_type, typed, correctedOrder>>

NotifiedNobody(pc) == pc

\* typing_condition.notify_all(): every task parked in wait() is woken
Notified(pc) == IF pc = "waiting" THEN "notified" ELSE pc

NextSequenceSkipsOne(next) == next + 2

\* "self.next_sequence_to_type += 1"
NextSequenceAfterEmit(next) == next + 1

PcAfterEmitTypesAgain == "emit"

\* after the increment and notify_all the coroutine leaves the block and returns
PcAfterEmit == "done"

\* kbd_controller.type returns; the counter advances, notify_all wakes every
\* parked task and the lock is released
GateEmit(n) ==
    /\ LoopAlive
    /\ taskPc[n] = "emit"
    /\ typed' = Append(typed, n)
    /\ next_sequence_to_type' = NextSequenceAfterEmit(next_sequence_to_type)
    /\ taskPc' = [m \in SeqNums |->
                    IF m = n THEN PcAfterEmit
                    ELSE Notified(taskPc[m])]
    /\ lock' = NoTask
    /\ UNCHANGED <<capVars, recording, hotkeyOn, webVars, recVars, infVars, pulse, fsVars, execVars,
                   model, loopState, taskRaw, taskText, correctedOrder>>

\* kbd_controller.type raises: the exception leaves the "async with" block,
\* which releases the lock, and ends the coroutine
GateEmitFail(n) ==
    /\ LoopAlive
    /\ taskPc[n] = "emit"
    /\ taskPc' = [taskPc EXCEPT ![n] = "emit_raised"]
    /\ lock' = NoTask
    /\ UNCHANGED <<capVars, recording, hotkeyOn, webVars, recVars, infVars, pulse, fsVars, execVars,
                   model, loopState, taskRaw, taskText, next_sequence_to_type, typed, correctedOrder>>

(***************************************************************************)
(* Specification.                                                          *)
(***************************************************************************)
Tick ==
    \/ \E d \in 1..FrameInterval : TickTooEarly(d)
    \/ \E d \in 1..FrameInterval : TickReadFail(d)
    \/ \E d \in 1..FrameInterval : TickRecord(d)
    \/ \E d \in 1..FrameInterval : TickSampleStopped(d)
    \/ TickCloseSubmit
    \/ TickCloseDiscard
    \/ TickElifSkip

Shutdown == Quit \/ JoinAsync \/ JoinExec \/ Cleanup

Worker ==
    \/ WorkerStart
    \/ \E raw \in RawTexts : InferOk(raw)
    \/ InferFail

Task(n) ==
    \/ TaskStart(n)
    \/ \E t \in Responses : TierOk(n, t)
    \/ TierFail(n)
    \/ GateEnter(n)
    \/ GatePark(n)
    \/ GateEmit(n)
    \/ GateEmitFail(n)

\* the event loop runs one ready coroutine up to its next suspension point
LoopRun == \E n \in SeqNums : Task(n)

Next ==
    \/ Toggle
    \/ Tick
    \/ Shutdown
    \/ Worker
    \/ LoopStop
    \/ LoopRun

Spec == Init /\ [][Next]_vars
\* run_forever keeps running ready coroutines until loop.stop(), and every
\* awaited remote call returns or raises (the client's timeout).  A coroutine
\* takes finitely many steps, so no coroutine can starve another.
FairSpec == Spec /\ WF_vars(LoopRun)

(***************************************************************************)
(* The pipeline while it is left running: no quit is requested and         *)
(* kbd_controller.type does not raise.                                     *)
(***************************************************************************)
TaskNoRaise(n) ==
    \/ TaskStart(n)
    \/ \E t \in Responses : TierOk(n, t)
    \/ TierFail(n)
    \/ GateEnter(n)
    \/ GatePark(n)
    \/ GateEmit(n)

LoopRunNoRaise == \E n \in SeqNums : TaskNoRaise(n)

LiveNext ==
    \/ Toggle
    \/ Tick
    \/ Worker
    \/ LoopRunNoRaise

\* the event loop keeps running ready coroutines and every awaited remote call
\* returns or raises
LiveSpec == Init /\ [][LiveNext]_vars /\ WF_vars(LoopRunNoRaise)

(***************************************************************************)
(* Steps 1-3 of one CorrectionTask on their own: the coroutine of sequence *)
(* number 0 is handed an arbitrary raw text and every awaited remote call  *)
(* answers with an arbitrary content or raises.                            *)
(***************************************************************************)
\* _correct_output_async(output, 0) has been scheduled
CorrectionInit ==
    /\ capPc = "tick"
    /\ out = NoSeg
    /\ output_path = NoSeg
    /\ frame_count = 0
    /\ elapsed = 0
    /\ frame_gap = FrameInterval
    /\ futures = <<>>
    /\ recording = FALSE
    /\ hotkeyOn = TRUE
    /\ pulse = "none"
    /\ files = {}
    /\ writers = {}
    /\ nseg = 1
    /\ framesOf = [s \in Segments |-> IF s = 1 THEN MaxFrames ELSE 0]
    /\ discarded = {}
    /\ execQueue = <<>>
    /\ running = NoSeg
    /\ fut = [s \in Segments |-> IF s = 1 THEN "ok" ELSE "none"]
    /\ current_sequence = 1
    /\ seqOf = [s \in Segments |-> IF s = 1 THEN 0 ELSE NoSeq]
    /\ model \in Models
    /\ loopState = "running"
    /\ taskPc = [n \in SeqNums |-> IF n = 0 THEN "scheduled" ELSE "none"]
    /\ \E raw \in Texts : taskRaw = [n \in SeqNums |-> IF n = 0 THEN raw ELSE <<>>]
    /\ taskText = [n \in SeqNums |-> <<>>]
    /\ lock = NoTask
    /\ next_sequence_to_type = 0
    /\ typed = <<>>
    /\ correctedOrder = <<>>
    /\ WebIdle
    /\ RecIdle
    /\ InfIdle

CorrectionNext ==
    \/ TaskStart(0)
    \/ \E t \in Texts : TierOk(0, t)
    \/ TierFail(0)

CorrectionSpec == CorrectionInit /\ [][CorrectionNext]_vars

(***************************************************************************)
(* web_app.py: process_video, from the point where validation has passed.  *)
(* Every request has a NamedTemporaryFile of its own ("tmp") and, for a    *)
(* WebM upload, the path of the converted file derived from it ("mp4").    *)
(***************************************************************************)
\* the files of request r
FilesOf(r) == {f \in webFiles : f[1] = r}

\* "with tempfile.NamedTemporaryFile(suffix=suffix, delete=False) as tmp":
\* the file exists from here on; the handler awaits video.read()
WebAccept(r, e) ==
    /\ webPc[r] = "idle"
    /\ webPc' = [webPc EXCEPT ![r] = "read"]
    /\ ext' = [ext EXCEPT ![r] = e]
    /\ webFiles' = webFiles \cup {<<r, "tmp">>}
    /\ UNCHANGED <<cliVars, recVars, infVars, tmp_path>>

\* the upload is read and written; tmp_path = tmp.name
WebRead(r) ==
    /\ webPc[r] = "read"
    /\ tmp_path' = [tmp_path EXCEPT ![r] = "tmp"]
    /\ webPc' = [webPc EXCEPT ![r] = IF ext[r] = ".webm" THEN "convert" ELSE "infer"]
    /\ UNCHANGED <<cliVars, recVars, infVars, ext, webFiles>>

\* video.read() raises: tmp_path is never assigned
WebReadFail(r) ==
    /\ webPc[r] = "read"
    /\ webPc' = [webPc EXCEPT ![r] = "finally"]
    /\ UNCHANGED <<cliVars, recVars, infVars, ext, tmp_path, webFiles>>

\* ffmpeg succeeds: the original is removed and tmp_path names the MP4
WebConvertOk(r) ==
    /\ webPc[r] = "convert"
    /\ webFiles' = (webFiles \ {<<r, "tmp">>}) \cup {<<r, "mp4">>}
    /\ tmp_path' = [tmp_path EXCEPT ![r] = "mp4"]
    /\ webPc' = [webPc EXCEPT ![r] = "infer"]
    /\ UNCHANGED <<cliVars, recVars, infVars, ext>>

\* ffmpeg is missing, fails or times out, with or without a partly written
\* output file: the handler goes on with the original
WebConvertFail(r, partial) ==
    /\ webPc[r] = "convert"
    /\ webFiles' = IF partial THEN webFiles \cup {<<r, "mp4">>} ELSE webFiles
    /\ webPc' = [webPc EXCEPT ![r] = "infer"]
    /\ UNCHANGED <<cliVars, recVars, infVars, ext, tmp_path>>

\* vsr_model(tmp_path) returns
WebInferOk(r) ==
    /\ webPc[r] = "infer"
    /\ webPc' = [webPc EXCEPT ![r] = "correct"]
    /\ UNCHANGED <<cliVars, recVars, infVars, ext, tmp_path, webFiles>>

\* vsr_model(tmp_path) raises
WebInferFail(r) ==
    /\ webPc[r] = "infer"
    /\ webPc' = [webPc EXCEPT ![r] = "finally"]
    /\ UNCHANGED <<cliVars, recVars, infVars, ext, tmp_path, webFiles>>

\* correct_text_simple returns or raises: either way the finally block is next
WebCorrect(r) ==
    /\ webPc[r] = "correct"
    /\ webPc' = [webPc EXCEPT ![r] = "finally"]
    /\ UNCHANGED <<cliVars, recVars, infVars, ext, tmp_path, webFiles>>

\* "for path in [tmp_path, tmp.name]: if path != tmp.name and
\* os.path.exists(path): os.remove(path)"; with tmp_path unassigned the block
\* raises before it removes anything
FilesAfterFinally(fl, r, path) ==
    IF path \in {"unset", "tmp"} THEN fl ELSE fl \ {<<r, path>>}

\* the finally block, after which the handler has finished
WebFinally(r) ==
    /\ webPc[r] = "finally"
    /\ webFiles' = FilesAfterFinally(webFiles, r, tmp_path[r])
    /\ webPc' = [webPc EXCEPT ![r] = "done"]
    /\ UNCHANGED <<cliVars, recVars, infVars, ext, tmp_path>>

WebNext ==
    \E r \in Requests :
        \/ \E e \in SUPPORTED_VIDEO_FORMATS : WebAccept(r, e)
        \/ WebRead(r)
        \/ WebReadFail(r)
        \/ WebConvertOk(r)
        \/ \E partial \in BOOLEAN : WebConvertFail(r, partial)
        \/ WebInferOk(r)
        \/ WebInferFail(r)
        \/ WebCorrect(r)
        \/ WebFinally(r)

WebSpec == Init /\ [][WebNext]_vars

(***************************************************************************)
(* video_processor.py: one VideoRecorder and the calls of its methods, in  *)
(* any order.  The path start_recording gets from generate_video_path is   *)
(* named by the clock and is an input here.                                *)
(***************************************************************************)
is_recording_never(w) == FALSE

is_recording_always(w) == TRUE

\* VideoRecorder.is_recording, and the tests "self.writer is not None" /
\* "self.writer is None" at the head of the other methods
is_recording(w) == w # NoSeg

\* start_recording: with a writer it returns the current path; without one it
\* generates the path, creates the writer (a new, empty file) and resets the count
start_recording(p) ==
    /\ IF is_recording(rec_writer)
       THEN /\ rec_ret' = [op |-> "start_recording", kind |-> "path",
                           path |-> rec_output_path]
            /\ UNCHANGED <<rec_writer, rec_output_path, rec_frame_count, rec_writers,
                           rec_framesOf>>
       ELSE /\ rec_output_path' = p
            /\ rec_writer' = p
            /\ rec_writers' = rec_writers \cup {p}
            /\ rec_framesOf' = [rec_framesOf EXCEPT ![p] = 0]
            /\ rec_frame_count' = 0
            /\ rec_ret' = [op |-> "start_recording", kind |-> "path", path |-> p]
    /\ UNCHANGED <<cliVars, webVars, infVars>>

\* write_frame: raises RuntimeError without a writer, else writes and counts
write_frame ==
    /\ IF ~is_recording(rec_writer)
       THEN /\ rec_ret' = [op |-> "write_frame", kind |-> "RuntimeError", path |-> NoSeg]
            /\ UNCHANGED <<rec_writer, rec_output_path, rec_frame_count, rec_writers,
                           rec_framesOf>>
       ELSE /\ rec_frame_count < MaxFrames
            /\ rec_framesOf' = [p \in RecPaths |->
                                  IF p = rec_writer THEN rec_framesOf[p] + 1
                                  ELSE rec_framesOf[p]]
            /\ rec_frame_count' = rec_frame_count + 1
            /\ rec_ret' = [op |-> "write_frame", kind |-> "None", path |-> NoSeg]
            /\ UNCHANGED <<rec_writer, rec_output_path, rec_writers>>
    /\ UNCHANGED <<cliVars, webVars, infVars>>

\* stop_recording: returns None without a writer, else releases the writer,
\* resets output_path and frame_count and returns the path
stop_recording ==
    /\ IF ~is_recording(rec_writer)
       THEN /\ rec_ret' = [op |-> "stop_recording", kind |-> "None", path |-> NoSeg]
            /\ UNCHANGED <<rec_writer, rec_output_path, rec_frame_count, rec_writers,
                           rec_framesOf>>
       ELSE /\ rec_writers' = rec_writers \ {rec_writer}
            /\ rec_writer' = NoSeg
            /\ rec_output_path' = NoSeg
            /\ rec_frame_count' = 0
            /\ rec_ret' = [op |-> "stop_recording", kind |-> "path",
                           path |-> rec_output_path]
            /\ UNCHANGED rec_framesOf
    /\ UNCHANGED <<cliVars, webVars, infVars>>

RecorderNext ==
    \/ \E p \in RecPaths : start_recording(p)
    \/ write_frame
    \/ stop_recording

RecorderSpec == Init /\ [][RecorderNext]_vars

(***************************************************************************)
(* inference_handler.py: run_inference as a function of what it is given   *)
(* and of what the recognition call and the callbacks do.                  *)
(***************************************************************************)
\* the except branch is entered when anything in the try block raises: the
\* recognition call, or on_result called with its output
run_inference(a) ==
    LET in_except == a.model_raises \/ a.on_result = "raises"
        called    == (IF ~a.model_raises /\ a.on_result # "absent"
                      THEN {"on_result"} ELSE {})
                     \cup (IF in_except /\ a.on_error # "absent"
                           THEN {"on_error"} ELSE {})
        ret       == IF ~in_except THEN [kind |-> "text", text |-> a.output]
                     ELSE IF a.on_error = "raises"
                          THEN [kind |-> "raised", text |-> <<>>]
                          ELSE [kind |-> "None", text |-> <<>>]
    IN  [called |-> called, ret |-> ret,
         file_exists |-> a.file_exists /\ ~a.cleanup_file]

\* one call
RunInference(a) ==
    /\ inf_args' = a
    /\ inf_result' = run_inference(a)
    /\ UNCHANGED <<cliVars, webVars, recVars>>

InferenceNext == \E a \in InferenceArgs : RunInference(a)

InferenceSpec == Init /\ [][InferenceNext]_vars

(***************************************************************************)
(* Vocabulary of the properties.                                           *)
(***************************************************************************)
Range(q) == {q[i] : i \in 1..Len(q)}

MinFrames == fps * MIN_RECORDING_DURATION_SECONDS

\* sequence numbers handed out so far
Assigned == {seqOf[s] : s \in Segments} \ {NoSeq}

\* the segment whose result carries sequence number n
SegOf(n) == CHOOSE s \in Segments : seqOf[s] = n

\* the task is in its remote correction or fallback
InCorrection(n) == taskPc[n] \in {"primary", "fallback", "plain"}

\* the task has arrived at "async with typing_condition" or is beyond it
ReachedGate(n) ==
    taskPc[n] \in {"acquire", "waiting", "notified", "emit", "done", "emit_raised"}

\* the text _correct_output_async types when every remote tier has failed
LocalText(n) == FinishText(format_text_locally(taskRaw[n]))

(***************************************************************************)
(* C1.  In-order emission: for sequence numbers a < b the text of a is     *)
(* typed before the text of b, whatever the order in which the corrections *)
(* finish; the i-th emission is the one of sequence number i - 1.          *)
(***************************************************************************)
C1_InOrderEmission ==
    /\ \A i \in 1..Len(typed) : typed[i] = i - 1
    /\ \A i, j \in 1..Len(typed) : i < j => typed[i] < typed[j]

\* the corrections finished in the order 1, 0 and the emissions are 0, 1
C1_Witness ==
    /\ Len(correctedOrder) >= 2
    /\ correctedOrder[1] = 1 /\ correctedOrder[2] = 0
    /\ typed = <<0, 1>>

(***************************************************************************)
(* C2.  End to end: the texts of submitted segments whose inference        *)
(* succeeded are typed in the order in which the capture loop closed the   *)
(* segments.  Segments are numbered in the order the loop opens them, and  *)
(* a segment is opened only after the previous one was closed.             *)
(***************************************************************************)
C2_CaptureOrderEmission ==
    /\ \A i \in 1..Len(typed) : typed[i] \in Assigned
    /\ \A i, j \in 1..Len(typed) : i < j => SegOf(typed[i]) < SegOf(typed[j])

\* both segments were typed, first the one closed first, although the
\* correction of the second one finished first
C2_Witness ==
    /\ Len(typed) = 2
    /\ SegOf(typed[1]) = 1 /\ SegOf(typed[2]) = 2
    /\ correctedOrder = <<1, 0>>

(***************************************************************************)
(* C3.  As claimed: every successful inference has exactly one             *)
(* CorrectionTask scheduled with its sequence number, and every assigned   *)
(* number has a task that reaches the gate, also for jobs that complete    *)
(* during shutdown.  Stated on the final state: once shutdown is complete  *)
(* every assigned number has reached the gate.                             *)
(***************************************************************************)
C3_OneTaskPerResult ==
    /\ \A s \in Segments :
          fut[s] = "ok" => seqOf[s] # NoSeq /\ taskPc[seqOf[s]] # "none"
    /\ \A s, t \in Segments :
          seqOf[s] # NoSeq /\ seqOf[s] = seqOf[t] => s = t
    /\ \A n \in SeqNums : taskPc[n] # "none" <=> n \in Assigned

C3_Original ==
    /\ C3_OneTaskPerResult
    /\ capPc = "done" => \A n \in Assigned : ReachedGate(n)

(***************************************************************************)
(* C3, amended.  Every successful inference has exactly one CorrectionTask *)
(* scheduled with its sequence number, and the task of every assigned      *)
(* number eventually reaches the gate unless the event loop is stopped     *)
(* first.                                                                  *)
(***************************************************************************)
C3_ReachesGateUnlessStopped ==
    /\ []C3_OneTaskPerResult
    /\ \A n \in SeqNums :
          (taskPc[n] # "none") ~> (ReachedGate(n) \/ loopState = "stopped")

\* a job completed after the loop had stopped: its task is scheduled and never
\* runs, while an earlier task did reach the gate
C3_Witness ==
    /\ capPc = "done"
    /\ taskPc[0] = "done"
    /\ taskPc[1] = "scheduled"

C5_GateAdvancesOnEmissionFailure ==
    \A n \in SeqNums : taskPc[n] = "emit_raised" => next_sequence_to_type > n

(***************************************************************************)
(* C6.  The assigned sequence numbers are exactly 0 .. current_sequence-1, *)
(* each is held by one job, and only jobs whose inference succeeded hold   *)
(* one: no failed and no discarded segment.                                *)
(***************************************************************************)
C6_NoGapsOnlySuccesses ==
    /\ Assigned = 0..(current_sequence - 1)
    /\ \A s, t \in Segments :
          seqOf[s] # NoSeq /\ seqOf[s] = seqOf[t] => s = t
    /\ \A s \in Segments :
          seqOf[s] # NoSeq => fut[s] = "ok" /\ s \notin discarded

\* a discarded segment is followed by a successful one, which holds number 0
C6_Witness ==
    /\ 1 \in discarded
    /\ fut[2] = "ok" /\ seqOf[2] = 0
    /\ current_sequence = 1

(***************************************************************************)
(* C7.  A failing recognition call leaves current_sequence unchanged and   *)
(* schedules no task, so each successful job holds the number of           *)
(* successful jobs before it: the next success takes the number the failed *)
(* job would have taken.                                                   *)
(***************************************************************************)
C7_FailureConsumesNoNumber ==
    /\ [][\A s \in Segments :
            fut[s] = "running" /\ fut'[s] = "err" =>
                /\ current_sequence' = current_sequence
                /\ taskPc' = taskPc
                /\ seqOf' = seqOf]_vars
    /\ [](\A s \in Segments :
            fut[s] = "running" \/ seqOf[s] # NoSeq =>
                LET before == Cardinality({t \in Segments : t < s /\ fut[t] = "ok"})
                IN  IF seqOf[s] # NoSeq THEN seqOf[s] = before
                    ELSE current_sequence = before)

\* the first job failed and the second, successful one holds number 0
C7_Witness ==
    /\ fut[1] = "err" /\ seqOf[1] = NoSeq
    /\ fut[2] = "ok" /\ seqOf[2] = 0
    /\ taskPc[0] # "none" /\ taskPc[1] = "none"

(***************************************************************************)
(* C8.  Once a failed job has been handled by the worker and by the        *)
(* capture loop (its future is gone from `futures`), its video file no     *)
(* longer exists, while the capture loop is still running.                 *)
(***************************************************************************)
C8_FailedJobFileDeleted ==
    \A s \in Segments :
        /\ fut[s] = "err"
        /\ s \notin Range(futures)
        /\ capPc \in {"tick", "elif"}
        => s \notin files

(***************************************************************************)
(* C9.  A segment closed with fewer than fps x 2 frames is never           *)
(* submitted to the inference executor.                                    *)
(***************************************************************************)
C9_ShortSegmentNeverSubmitted ==
    \A s \in Segments :
        framesOf[s] < fps * MIN_RECORDING_DURATION_SECONDS /\ s # out =>
            /\ fut[s] = "none"
            /\ s \notin Range(execQueue) /\ s \notin Range(futures) /\ s # running

\* a segment was closed short of the minimum, and a later one was submitted
C9_Witness ==
    \E s, t \in Segments :
        /\ s \in discarded /\ framesOf[s] > 0 /\ framesOf[s] < MinFrames
        /\ fut[s] = "none"
        /\ fut[t] # "none"

(***************************************************************************)
(* C10.  A segment closed with fewer than minFrames frames has its file    *)
(* deleted in the tick that closes it, never gets an inference call or a   *)
(* sequence number, and that tick leaves the controller idle with          *)
(* frame_count = 0, from where it records new segments.                    *)
(***************************************************************************)
C10_DiscardIsClean ==
    /\ [](\A s \in discarded :
            /\ s \notin files
            /\ fut[s] = "none" /\ seqOf[s] = NoSeq
            /\ s \notin Range(execQueue) /\ s # running)
    /\ [][\A s \in Segments :
            s \notin discarded /\ s \in discarded' =>
                /\ framesOf[s] < MinFrames
                /\ s \notin files' /\ s \notin writers'
                /\ out' = NoSeg /\ output_path' = NoSeg /\ frame_count' = 0
                /\ capPc' = "tick"
                /\ current_sequence' = current_sequence
                /\ execQueue' = execQueue]_vars

\* after a discard the controller is recording the next segment
C10_Witness ==
    /\ 1 \in discarded /\ 1 \notin files
    /\ out = 2 /\ frame_count > 0 /\ 2 \in files

(***************************************************************************)
(* C11.  At most one VideoWriter is unreleased at any time, and it is the  *)
(* one held in `out`.  A tick that reads the flag as False while no        *)
(* segment is open and frame_count = 0 neither opens nor closes a writer,  *)
(* discards nothing and submits nothing: the recorder's variables keep     *)
(* their values, and the only files that go are those of completed jobs,   *)
(* which every tick collects from `futures`.                               *)
(***************************************************************************)
C11_SingleOpenSegment ==
    /\ [](Cardinality(writers) <= 1 /\ writers \subseteq {out})
    /\ [][(\/ capPc = "tick" /\ capPc' = "elif"
           \/ capPc = "elif" /\ capPc' = "tick")
          /\ out = NoSeg /\ frame_count = 0 =>
              /\ out' = NoSeg /\ output_path' = output_path /\ frame_count' = 0
              /\ writers' = writers /\ nseg' = nseg /\ framesOf' = framesOf
              /\ discarded' = discarded
              /\ execQueue' = execQueue /\ fut' = fut
              /\ files' \subseteq files
              /\ \A s \in files \ files' : fut[s] = "ok"]_vars

\* the flag was read as False with nothing open, after an earlier segment had
\* been opened and closed
C11_Witness ==
    /\ capPc = "elif" /\ out = NoSeg /\ frame_count = 0
    /\ nseg = 1 /\ writers = {}

(***************************************************************************)
(* C12.  Whatever the raw text and whatever the remote calls answer, the   *)
(* text a CorrectionTask brings to the gate is the typing space preceded   *)
(* by a non-empty text that ends in '.', '?' or '!'.                       *)
(***************************************************************************)
C12_TextEndsSentence ==
    \A n \in SeqNums :
        ReachedGate(n) =>
            /\ Len(taskText[n]) >= 2
            /\ taskText[n][Len(taskText[n])] = " "
            /\ IsTerminal(taskText[n][Len(taskText[n]) - 1])

(***************************************************************************)
(* C13.  kbd_controller.type returns at most once per sequence number: no  *)
(* number occurs twice among the emissions, every emitted number was       *)
(* assigned, and no two results carry the same number, so no two tasks     *)
(* emit for one number.                                                    *)
(***************************************************************************)
C13_EmitAtMostOnce ==
    /\ \A i, j \in 1..Len(typed) : typed[i] = typed[j] => i = j
    /\ \A i \in 1..Len(typed) : typed[i] \in Assigned
    /\ \A s, t \in Segments :
          seqOf[s] # NoSeq /\ seqOf[s] = seqOf[t] => s = t
    /\ Len(typed) <= Cardinality(Assigned)

\* both tasks have emitted and returned
C13_Witness ==
    /\ taskPc[0] = "done" /\ taskPc[1] = "done"
    /\ Len(typed) = 2

(***************************************************************************)
(* C14.  At every moment at most one perform_inference call is running,    *)
(* and it is the one the worker thread holds, however many segments have   *)
(* been submitted.                                                         *)
(***************************************************************************)
C14_SingleInference ==
    /\ Cardinality({s \in Segments : fut[s] = "running"}) <= 1
    /\ \A s \in Segments : fut[s] = "running" <=> s = running

\* one job is running while a later one waits in the executor's queue
C14_Witness ==
    /\ fut[1] = "running"
    /\ execQueue = <<2>> /\ fut[2] = "queued"

(***************************************************************************)
(* C15.  The worker starts jobs in submission order, and when it starts a  *)
(* job every earlier successful job already has its sequence number and    *)
(* its scheduled task.  A job that succeeds takes as its number the count  *)
(* of jobs that succeeded before it, so among successful jobs the order of *)
(* the numbers is the order of completion and the order of submission.     *)
(***************************************************************************)
C15_SequenceOrderIsSubmissionOrder ==
    /\ [][\A s \in Segments :
            fut[s] = "queued" /\ fut'[s] = "running" =>
                /\ \A t \in Segments : t < s => fut[t] \notin {"queued", "running"}
                /\ \A t \in Segments :
                      fut[t] = "ok" => seqOf[t] # NoSeq /\ taskPc[seqOf[t]] # "none"]_vars
    /\ [][\A s \in Segments :
            fut[s] = "running" /\ fut'[s] = "ok" =>
                /\ seqOf'[s] = Cardinality({t \in Segments : fut[t] = "ok"})
                /\ taskPc[seqOf'[s]] = "none" /\ taskPc'[seqOf'[s]] = "scheduled"
                /\ \A t \in Segments : fut[t] = "ok" => t < s /\ seqOf[t] < seqOf'[s]]_vars
    /\ [](\A s, t \in Segments :
            s < t /\ seqOf[s] # NoSeq /\ seqOf[t] # NoSeq => seqOf[s] < seqOf[t])

\* the second job is running; the first one succeeded and its task is scheduled
C15_Witness ==
    /\ fut[1] = "ok" /\ seqOf[1] = 0 /\ taskPc[0] # "none"
    /\ fut[2] = "running"

(***************************************************************************)
(* C16.  The capture loop is never held up by the inference worker: while  *)
(* it runs it always has a step to take, a recording that is long enough   *)
(* can be submitted whatever the worker is doing and however long its      *)
(* queue is, and while a job is queued or running the loop can still write *)
(* frames to a further segment.                                            *)
(***************************************************************************)
C16_SubmitNeverBlocks ==
    /\ capPc \in {"tick", "elif"} => ENABLED Tick
    /\ capPc = "elif" /\ ElifTaken(recording, frame_count)
          /\ should_process_recording(frame_count, fps)
          => ENABLED TickCloseSubmit
    /\ capPc = "tick" /\ recording /\ frame_count < MaxFrames
          /\ (out = NoSeg => nseg < MaxSegments)
          => ENABLED TickRecord(FrameInterval)

\* the second segment is closed and submitted while the first job is still
\* running
C16_Witness ==
    /\ fut[1] = "running"
    /\ fut[2] = "queued" /\ framesOf[2] >= MinFrames
    /\ out = NoSeg /\ frame_count = 0 /\ capPc = "tick"

(***************************************************************************)
(* C17.  The hotkey sets the flag and clears it again before the capture   *)
(* loop, which has nothing open, reads it: the toggles change nothing but  *)
(* the flag, and the loop's next reading of the flag finds it False and    *)
(* opens no segment, discards nothing and submits nothing.  No job of      *)
(* fewer than the minimum number of frames, let alone of zero frames, is   *)
(* ever submitted.                                                         *)
(***************************************************************************)
C17_FastToggleSubmitsNothing ==
    /\ [][recording' # recording =>
            UNCHANGED <<capVars, hotkeyOn, webVars, recVars, infVars, fsVars, execVars, loopVars>>]_vars
    /\ [](pulse = "onoff" => ~recording)
    /\ [][/\ pulse = "onoff" /\ pulse' = "none"
          /\ capPc' \in {"tick", "elif"}
          /\ out = NoSeg /\ frame_count = 0
          => /\ out' = NoSeg /\ frame_count' = 0 /\ output_path' = output_path
             /\ nseg' = nseg /\ writers' = writers /\ discarded' = discarded
             /\ execQueue' = execQueue /\ fut' = fut]_vars
    /\ [](\A s \in Segments : fut[s] # "none" => framesOf[s] >= MinFrames)

\* the flag went up and down between the two readings of one tick, with nothing
\* recorded so far
C17_Witness ==
    /\ capPc = "elif" /\ pulse = "onoff"
    /\ out = NoSeg /\ frame_count = 0 /\ nseg = 0

(***************************************************************************)
(* C18.  A tick on which cap.read() fails leaves the open segment, the     *)
(* frame count, the output path, the files, the writers, the list of       *)
(* futures and the executor untouched; last_frame_time is not reset, so    *)
(* the next frame stays due; and the loop goes on to its next iteration.   *)
(***************************************************************************)
C18_ReadFailChangesNothing ==
    [][(\E d \in 1..FrameInterval : TickReadFail(d)) =>
          /\ UNCHANGED <<capPc, out, output_path, frame_count, futures>>
          /\ UNCHANGED <<recording, fsVars, execVars, loopVars>>
          /\ elapsed' >= elapsed /\ elapsed' >= FrameInterval
          /\ capPc' = "tick"]_vars

\* a frame is due for the open segment and a finished job has not been
\* collected from `futures`
C18_Witness ==
    /\ capPc = "tick" /\ elapsed = FrameInterval
    /\ recording /\ out = 2 /\ frame_count = 1
    /\ futures = <<1>> /\ fut[1] = "ok" /\ 1 \in files

(***************************************************************************)
(* C19.  Once shutdown is complete no segment file exists, whatever became *)
(* of the segments (successful, failed, queued at quit, open at quit), and *)
(* the cleanup runs, and shutdown completes, only when the executor has    *)
(* no queued or running job left.                                          *)
(***************************************************************************)
C19_NoFileAfterShutdown ==
    /\ capPc = "done" => files = {}
    /\ capPc \in {"cleanup", "done"} =>
          /\ execQueue = <<>> /\ running = NoSeg
          /\ \A s \in Segments : fut[s] \notin {"queued", "running"}

\* shutdown is complete after a run with a failed job, whose file was left on
\* disk, and a segment still open at quit
C19_Witness ==
    /\ capPc = "done" /\ files = {}
    /\ fut[1] = "err"
    /\ out = 2 /\ framesOf[2] > 0

(***************************************************************************)
(* C20.  A submitted job goes from queued to running to finished, once:    *)
(* it is never started again.  Whatever failed before, the worker can take *)
(* its next step as long as a job is queued or running, and when shutdown  *)
(* is complete every submitted job has finished.  A job that succeeds      *)
(* gets its sequence number and its scheduled task also when an earlier    *)
(* job failed.                                                             *)
(***************************************************************************)
C20_WorkerSurvivesFailure ==
    /\ [][\A s \in Segments :
            fut'[s] # fut[s] =>
                \/ fut[s] = "none" /\ fut'[s] = "queued"
                \/ fut[s] = "queued" /\ fut'[s] = "running"
                \/ fut[s] = "running" /\ fut'[s] \in {"ok", "err"}]_vars
    /\ [](execQueue # <<>> \/ running # NoSeg => ENABLED Worker)
    /\ [](\A s \in Segments : fut[s] = "queued" <=> s \in Range(execQueue))
    /\ [](capPc = "done" => \A s \in Segments : fut[s] \in {"none", "ok", "err"})
    /\ [][\A s \in Segments :
            fut[s] = "running" /\ fut'[s] = "ok" =>
                /\ seqOf'[s] = current_sequence
                /\ taskPc'[seqOf'[s]] = "scheduled"]_vars

\* the job after a failed one ran, succeeded and had its text typed
C20_Witness ==
    /\ fut[1] = "err" /\ fut[2] = "ok"
    /\ seqOf[2] = 0 /\ typed = <<0>>

(***************************************************************************)
(* C21.  As claimed: the tiers are tried in the order primary, alternate   *)
(* model, plain text, local, each only after every earlier one failed.  In *)
(* particular the plain-text call is attempted only after the              *)
(* alternate-model call has failed.                                        *)
(***************************************************************************)
C21_Original ==
    [][\A n \in SeqNums :
          taskPc'[n] = "plain" /\ taskPc[n] # "plain" => taskPc[n] = "fallback"]_vars

(***************************************************************************)
(* C21, amended.  The tiers are tried in the order primary, alternate      *)
(* model, plain text, local, except that the alternate-model call is left  *)
(* out when the configured model is the fallback model itself: then the    *)
(* plain-text call follows the failed primary call.  A tier is attempted   *)
(* only after every earlier attempted tier failed, the first success       *)
(* decides the text and ends the attempts, and when the plain-text call    *)
(* fails too the text is the local formatter's output on the raw text.     *)
(***************************************************************************)
C21_TierOrder ==
    /\ [](\A n \in SeqNums : taskPc[n] = "fallback" => model # LLM_FALLBACK_MODEL)
    /\ [][\A n \in SeqNums :
            taskPc'[n] # taskPc[n] =>
                \/ taskPc[n] = "none"
                \/ taskPc[n] = "scheduled" /\ taskPc'[n] = "primary"
                \/ /\ taskPc[n] = "primary" /\ model # LLM_FALLBACK_MODEL
                   /\ taskPc'[n] = "fallback" /\ taskText'[n] = taskText[n]
                \/ /\ taskPc[n] = "primary" /\ model = LLM_FALLBACK_MODEL
                   /\ taskPc'[n] = "plain" /\ taskText'[n] = taskText[n]
                \/ /\ taskPc[n] = "fallback"
                   /\ taskPc'[n] = "plain" /\ taskText'[n] = taskText[n]
                \/ /\ InCorrection(n) /\ taskPc'[n] = "acquire"
                   /\ \E t \in Texts \cup Responses :
                         taskText'[n] = FinishText(TierText(taskPc[n], t))
                \/ /\ taskPc[n] = "plain" /\ taskPc'[n] = "acquire"
                   /\ taskText'[n] = LocalText(n)
                \/ ReachedGate(n) /\ ~InCorrection(n) /\ taskPc'[n] # "scheduled"]_vars

\* with the fallback model configured, primary and plain-text failed and the
\* local formatter's text is at the gate
C21_Witness ==
    /\ model = LLM_FALLBACK_MODEL
    /\ taskPc[0] = "acquire"
    /\ taskRaw[0] = <<"A", "A">>
    /\ taskText[0] = <<"A", "a", ".", " ">>

(***************************************************************************)
(* C22.  When the handler of a request that passed validation has          *)
(* finished, by whatever path, none of the temporary files created for     *)
(* the request is left on disk.                                            *)
(***************************************************************************)
C22_NoTempFileLeft ==
    \A r \in Requests : webPc[r] = "done" => FilesOf(r) = {}

(***************************************************************************)
(* C23.  Once the event loop has stopped it stays stopped and nothing is   *)
(* typed any more: next_sequence_to_type, the lock and the texts keep      *)
(* their values, every task stays where it is (a parked task stays         *)
(* parked), and the only change to the tasks is that a coroutine handed to *)
(* the loop by a job finishing later is scheduled, and it never runs.      *)
(***************************************************************************)
C23_NoEmissionAfterShutdown ==
    [][loopState = "stopped" =>
          /\ loopState' = "stopped"
          /\ typed' = typed
          /\ next_sequence_to_type' = next_sequence_to_type
          /\ lock' = lock /\ taskText' = taskText
          /\ \A n \in SeqNums :
                taskPc'[n] # taskPc[n] =>
                    taskPc[n] = "none" /\ taskPc'[n] = "scheduled"]_vars

\* shutdown is complete with the task of number 1 parked at the gate, the one
\* of number 0 never having got its corrected text
C23_Witness ==
    /\ capPc = "done" /\ loopState = "stopped"
    /\ taskPc[1] = "waiting" /\ InCorrection(0)
    /\ typed = <<>>

(***************************************************************************)
(* C24.  While no quit is requested, kbd_controller.type does not raise    *)
(* and every remote call returns or fails, the text of every segment whose *)
(* inference succeeded is eventually typed: next_sequence_to_type          *)
(* eventually passes every assigned sequence number.                       *)
(***************************************************************************)
C24_EverySuccessIsEmitted ==
    \A s \in Segments :
        (fut[s] = "ok") ~>
            /\ seqOf[s] \in Range(typed)
            /\ next_sequence_to_type > seqOf[s]

\* both segments were long enough, succeeded and were typed
C24_Witness ==
    /\ capPc \in {"tick", "elif"} /\ loopState = "running"
    /\ \A s \in Segments : fut[s] = "ok" /\ framesOf[s] >= MinFrames
    /\ Range(typed) = SeqNums
    /\ next_sequence_to_type = MaxSegments

(***************************************************************************)
(* C25.  The action of a tick is the one a single value of the flag        *)
(* determines.  For a tick that found the flag False in its "if" and has   *)
(* frames recorded, that is closing the segment (the flag read as False)   *)
(* or writing the frame (the flag read as True).                           *)
(***************************************************************************)
C25_FlagSampledOncePerTick ==
    [][capPc = "elif" /\ capPc' = "tick" /\ frame_count > 0 =>
          \/ out' = NoSeg /\ frame_count' = 0
          \/ frame_count' = frame_count + 1]_vars

(***************************************************************************)
(* C26.  next_sequence_to_type changes only by +1, in a step of the task   *)
(* that holds the gate lock and whose sequence number is the old value of  *)
(* the counter, and that step follows the task's emission: the old value   *)
(* is the last one typed.  So the counter never decreases or skips.        *)
(***************************************************************************)
C26_CounterAdvancesByHolder ==
    [][next_sequence_to_type' # next_sequence_to_type =>
          /\ next_sequence_to_type' = next_sequence_to_type + 1
          /\ lock = next_sequence_to_type
          /\ taskPc[next_sequence_to_type] = "emit"
          /\ typed' = Append(typed, next_sequence_to_type)
          /\ lock' = NoTask]_vars

C26_Witness ==
    /\ next_sequence_to_type = 1
    /\ typed = <<0>>
    /\ lock = NoTask
    /\ taskPc[0] = "done"
    /\ taskPc[1] = "notified"

(***************************************************************************)
(* C27.  No task holds the gate lock while it is in its remote correction  *)
(* call or fallback; the lock is acquired only by a task whose corrected   *)
(* text is final, and the text does not change while the lock is held.     *)
(* A correction may therefore be in flight while another task holds the    *)
(* lock, and corrections complete in any order.                            *)
(***************************************************************************)
C27_LockNotHeldDuringCorrection ==
    /\ [](\A n \in SeqNums :
            taskPc[n] \in {"idle", "scheduled"} \/ InCorrection(n) => lock # n)
    /\ [][\A n \in SeqNums :
            /\ lock' = n /\ lock # n =>
                  /\ ReachedGate(n)
                  /\ taskText'[n] = taskText[n]
            /\ lock = n => taskText'[n] = taskText[n]]_vars

C27_Witness ==
    /\ lock = 0
    /\ taskPc[0] = "emit"
    /\ taskPc[1] = "fallback"
    /\ correctedOrder = <<0>>

(***************************************************************************)
(* C28.  A task whose sequence number differs from next_sequence_to_type   *)
(* parks at the gate: it has not emitted and does not hold the lock.       *)
(* Every advance of the counter wakes all parked tasks, so no task stays   *)
(* parked with the counter at its own number, and the task whose number    *)
(* the counter holds can always take the lock while the loop runs.         *)
(***************************************************************************)
C28_ParkedTasksNeverBlockTheTurn ==
    /\ [](\A n \in SeqNums :
            /\ taskPc[n] \in {"waiting", "notified"} =>
                  /\ lock # n
                  /\ n \notin Range(typed)
            /\ taskPc[n] = "waiting" => next_sequence_to_type # n
            /\ AtGate(taskPc[n]) /\ MyTurn(n, next_sequence_to_type) /\ LoopAlive
                  => ENABLED GateEnter(n))
    /\ [][\A n \in SeqNums :
            /\ taskPc[n] = "waiting" /\ next_sequence_to_type' # next_sequence_to_type
                  => taskPc'[n] = "notified"
            /\ taskPc'[n] = "waiting" /\ taskPc[n] # "waiting"
                  => /\ ~MyTurn(n, next_sequence_to_type)
                     /\ UNCHANGED <<typed, next_sequence_to_type>>
                     /\ lock' = NoTask]_vars

C28_Witness ==
    /\ taskPc[1] = "notified"
    /\ next_sequence_to_type = 1
    /\ lock = NoTask
    /\ loopState = "running"
    /\ ENABLED GateEnter(1)

(***************************************************************************)
(* C29.  A segment that has been opened and is no longer the open one is   *)
(* never written again: its frame count is fixed and it has no writer.     *)
(* The tick that closes a segment resets output_path and frame_count, and  *)
(* every recording that starts afterwards opens a segment that has never   *)
(* been used, whose frames are counted from 0.                             *)
(***************************************************************************)
C29_ClosedSegmentNeverWritten ==
    [][/\ \A s \in Segments :
             s <= nseg /\ s # out =>
                 /\ framesOf'[s] = framesOf[s]
                 /\ s \notin writers'
                 /\ out' # s
                 /\ output_path' # s
       /\ capPc = "elif" /\ out # NoSeg /\ out' = NoSeg =>
             /\ output_path' = NoSeg
             /\ frame_count' = 0
       /\ out = NoSeg /\ out' # NoSeg =>
             /\ out' > nseg
             /\ framesOf[out'] = 0
             /\ frame_count = 0
             /\ frame_count' = 1
             /\ framesOf'[out'] = 1
             /\ output_path' = out']_vars

C29_Witness ==
    /\ out = 2
    /\ frame_count = 1
    /\ framesOf[2] = 1
    /\ framesOf[1] = MinFrames
    /\ fut[1] = "queued"
    /\ 1 \notin writers

C31_FramesOneIntervalApart ==
    /\ [](frame_gap >= FrameInterval)
    /\ [][framesOf' # framesOf => elapsed' = 0]_vars

C31_Witness ==
    /\ nseg = 2
    /\ out = 2
    /\ framesOf[1] >= 1
    /\ framesOf[2] = 1
    /\ elapsed = 0
    /\ frame_gap >= FrameInterval

(***************************************************************************)
(* C32.  The file of a submitted job exists as long as the job is queued   *)
(* or running.  A step that removes the file of a submitted job is either  *)
(* a capture-loop iteration that found the job's future done, or the       *)
(* cleanup at shutdown, which runs when no job is queued or running.       *)
(***************************************************************************)
C32_FileKeptWhileJobPending ==
    /\ [](\A s \in Segments : fut[s] \in {"queued", "running"} => s \in files)
    /\ [][\A s \in Segments :
            s \in files /\ s \notin files' /\ fut[s] # "none" =>
                \/ capPc \in {"tick", "elif"} /\ fut[s] \in {"ok", "err"}
                \/ /\ capPc = "cleanup"
                   /\ execQueue = <<>> /\ running = NoSeg
                   /\ \A t \in Segments : fut[t] \notin {"queued", "running"}]_vars

C32_Witness ==
    /\ capPc = "join_exec"
    /\ running = 1
    /\ execQueue = <<2>>
    /\ {1, 2} \subseteq files

(***************************************************************************)
(* C33.  Every segment the capture loop has closed is handled in exactly   *)
(* one way, decided by its frame count: with at least fps x 2 frames       *)
(* (fps x 2 itself included) it has been submitted and not discarded,      *)
(* with fewer it has been discarded and not submitted.  A path enters the  *)
(* executor's queue only as a job not submitted before, so no segment is   *)
(* submitted twice.                                                        *)
(***************************************************************************)
C33_ClosedSegmentHandledOneWay ==
    /\ [](\A s \in Segments :
            s <= nseg /\ s # out =>
                IF framesOf[s] >= fps * MIN_RECORDING_DURATION_SECONDS
                THEN fut[s] # "none" /\ s \notin discarded
                ELSE fut[s] = "none" /\ s \in discarded)
    /\ [](Cardinality(Range(execQueue)) = Len(execQueue))
    /\ [][\A s \in Segments :
            /\ Len(execQueue') > Len(execQueue)
            /\ s = execQueue'[Len(execQueue')]
            => /\ execQueue' = Append(execQueue, s)
               /\ fut[s] = "none" /\ fut'[s] = "queued"
               /\ s = out /\ out' = NoSeg
               /\ s \notin discarded']_vars

C33_Witness ==
    /\ framesOf[1] = fps * MIN_RECORDING_DURATION_SECONDS
    /\ fut[1] # "none"
    /\ 2 \in discarded
    /\ out = NoSeg
    /\ capPc = "tick"

(***************************************************************************)
(* C34.  start_recording called on a VideoRecorder that has a writer       *)
(* returns the current output path and changes nothing: writer, path,      *)
(* frame count, the set of unreleased writers and the files stay as they   *)
(* are.  At most one writer is unreleased at any time, the one in          *)
(* self.writer.                                                            *)
(***************************************************************************)
C34_StartWhileRecordingIsNoOp ==
    /\ [](Cardinality(rec_writers) <= 1)
    /\ [](rec_writers = IF rec_writer = NoSeg THEN {} ELSE {rec_writer})
    /\ [][rec_writer # NoSeg /\ (\E p \in RecPaths : start_recording(p)) =>
             /\ UNCHANGED <<rec_writer, rec_output_path, rec_frame_count,
                            rec_writers, rec_framesOf>>
             /\ rec_ret' = [op |-> "start_recording", kind |-> "path",
                            path |-> rec_output_path]]_vars

\* start_recording was the last call and found frames already written
C34_Witness ==
    /\ rec_writer # NoSeg
    /\ rec_frame_count > 0
    /\ rec_ret = [op |-> "start_recording", kind |-> "path", path |-> rec_output_path]

(***************************************************************************)
(* C35.  On a VideoRecorder without a writer, write_frame raises           *)
(* RuntimeError and stop_recording returns None; neither changes writer,   *)
(* output_path, frame_count or any file.                                   *)
(***************************************************************************)
C35_IdleRecorderCallsChangeNothing ==
    /\ [][rec_writer = NoSeg /\ write_frame =>
             /\ rec_ret' = [op |-> "write_frame", kind |-> "RuntimeError",
                            path |-> NoSeg]
             /\ UNCHANGED <<rec_writer, rec_output_path, rec_frame_count,
                            rec_writers, rec_framesOf>>]_vars
    /\ [][rec_writer = NoSeg /\ stop_recording =>
             /\ rec_ret' = [op |-> "stop_recording", kind |-> "None", path |-> NoSeg]
             /\ UNCHANGED <<rec_writer, rec_output_path, rec_frame_count,
                            rec_writers, rec_framesOf>>]_vars
    /\ [](rec_writer = NoSeg => rec_output_path = NoSeg /\ rec_frame_count = 0)

\* write_frame was called after a recording had been stopped
C35_Witness ==
    /\ rec_writer = NoSeg
    /\ rec_ret = [op |-> "write_frame", kind |-> "RuntimeError", path |-> NoSeg]
    /\ \E p \in RecPaths : rec_framesOf[p] > 0

(***************************************************************************)
(* C36.  next_sequence_to_type never exceeds current_sequence, and every   *)
(* sequence number that has been typed, or that a task holding the lock is *)
(* about to type, was handed out by the worker before.                     *)
(***************************************************************************)
C36_EmitCounterBelowAssigned ==
    /\ next_sequence_to_type <= current_sequence
    /\ \A n \in Range(typed) : n < current_sequence
    /\ \A n \in SeqNums : taskPc[n] = "emit" => n < current_sequence

\* the first number is typed, the second is handed out and not yet typed
C36_Witness ==
    /\ next_sequence_to_type = 1
    /\ current_sequence = 2
    /\ typed = <<0>>
    /\ taskPc[1] \in {"primary", "fallback", "plain"}

(***************************************************************************)
(* C37.  Between two iterations of the capture loop, and between the two   *)
(* readings of the flag in one iteration, a segment is open exactly when   *)
(* frame_count > 0, and frame_count is the number of frames in the open    *)
(* segment.  A step that opens a segment writes its first frame, and a     *)
(* step that closes one sets frame_count to 0.                             *)
(***************************************************************************)
C37_OpenIffFramesWritten ==
    /\ [](capPc \in {"tick", "elif"} =>
            /\ out # NoSeg <=> frame_count > 0
            /\ out # NoSeg => frame_count = framesOf[out] /\ output_path = out)
    /\ [][out = NoSeg /\ out' # NoSeg => frame_count' = 1 /\ framesOf'[out'] = 1]_vars
    /\ [][out # NoSeg /\ out' = NoSeg => frame_count' = 0]_vars

\* the second segment has its first frame, the first one was submitted
C37_Witness ==
    /\ capPc = "tick"
    /\ out = 2
    /\ frame_count = 1
    /\ fut[1] # "none"

(***************************************************************************)
(* C38.  While a segment is open, toggles that end with a start and have   *)
(* not been read leave the flag True: the next reading of the flag writes  *)
(* one more frame to the same segment and closes, opens, discards and      *)
(* submits nothing.  A segment is closed only in an iteration whose "if"   *)
(* read the flag as False, by the branch that reads it as False again, and *)
(* that iteration closes one segment, so there are never more closed       *)
(* segments than readings of a stop.                                       *)
(***************************************************************************)
C38_StopStartKeepsSegment ==
    /\ [](pulse = "on" => recording)
    /\ [][/\ capPc = "tick" /\ out # NoSeg
          /\ pulse = "on" /\ pulse' = "none" /\ hotkeyOn'
          => /\ out' = out /\ output_path' = output_path
             /\ frame_count' = frame_count + 1
             /\ framesOf'[out] = framesOf[out] + 1
             /\ nseg' = nseg /\ discarded' = discarded
             /\ execQueue' = execQueue /\ fut' = fut]_vars
    /\ [][capPc' = "elif" /\ capPc # "elif" => capPc = "tick" /\ ~recording]_vars
    /\ [][out # NoSeg /\ out' = NoSeg =>
             /\ capPc = "elif" /\ capPc' = "tick"
             /\ ~recording]_vars

\* a stop and a start have followed the writing of the first frame, unread
C38_Witness ==
    /\ capPc = "tick"
    /\ out = 1
    /\ frame_count = 1
    /\ elapsed = 0
    /\ pulse = "on"
    /\ recording

(***************************************************************************)
(* C39.  Once the quit key has ended the capture loop, the segment that    *)
(* was open is never submitted, whatever its frame count: its writer is    *)
(* released, it has no future, no inference call and no sequence number,   *)
(* the worker never takes it, and when shutdown is complete its file is    *)
(* gone.                                                                   *)
(***************************************************************************)
C39_OpenSegmentAtQuitNotSubmitted ==
    /\ [](capPc \notin {"tick", "elif"} /\ out # NoSeg =>
            /\ out \notin writers
            /\ fut[out] = "none" /\ seqOf[out] = NoSeq
            /\ out \notin Range(execQueue) /\ out # running
            /\ out \notin Range(futures))
    /\ [](capPc = "done" /\ out # NoSeg => out \notin files)
    /\ [][capPc \notin {"tick", "elif"} =>
             /\ out' = out /\ framesOf' = framesOf
             /\ Len(execQueue') <= Len(execQueue)]_vars

\* shutdown is complete; the segment open at quit was long enough to process
C39_Witness ==
    /\ capPc = "done"
    /\ out = 1
    /\ framesOf[1] >= MinFrames
    /\ fut[1] = "none"
    /\ 1 \notin files

(***************************************************************************)
(* C40.  After a call of run_inference: with both callbacks given exactly  *)
(* one of them was invoked; the call returned None exactly when the        *)
(* recognition call raised; with cleanup_file the file is gone, without it *)
(* the file is as it was.                                                  *)
(***************************************************************************)
C40_RunInferenceContract ==
    inf_result.ret.kind # "none" =>
        /\ inf_args.on_result # "absent" /\ inf_args.on_error # "absent" =>
              Cardinality(inf_result.called) = 1
        /\ inf_result.ret.kind = "None" <=> inf_args.model_raises
        /\ inf_args.cleanup_file => ~inf_result.file_exists
        /\ ~inf_args.cleanup_file => inf_result.file_exists = inf_args.file_exists
====
